---- MODULE Spec2Model ----
(***************************************************************************)
(* Model of the GPS animal tracker device code                             *)
(*   src/device/decode-gps-data/app.py  (flush_serial, get_next_location,  *)
(*                                        main)                            *)
(*   src/device/send-gps-data/app.py    (the same two functions, main      *)
(*                                        sending instead of printing)     *)
(*   src/device/print-gps-data/app.py   (flush_serial, main loop printing  *)
(*                                        lines)                           *)
(*   src/functions/gps_data_trigger/__init__.py  (main: event to document) *)
(*                                                                         *)
(* The serial transport is a FIFO of lines (one element per readline());   *)
(* readline() on an empty FIFO returns b'' after the 1 second timeout.     *)
(* Coordinates are exact rationals scaled by Scale (tenths of an arc       *)
(* minute), so that degrees + minutes/60 is an integer; Python's floating  *)
(* point rounding is not modelled.                                         *)
(***************************************************************************)
EXTENDS Integers, Sequences, FiniteSets, TLC

VARIABLES
    pc,           \* position of the device program (decode/send-gps-data)
    ret,          \* who called flush_serial: "main" (line 124) or "call"
    buf,          \* the transport's input buffer: lines received, unread
    line,         \* local `line` of get_next_location
    retry,        \* local `retry` of get_next_location
    result,       \* the LatLon returned by get_next_location
    err,          \* the exception that ended the program, "" if none
    emitted,      \* messages printed / sent in the current poll cycle
    staleCount,   \* history: lines at the head of buf buffered at call start
    lineStale,    \* history: `line` was buffered when the call began
    fixStale,     \* history: result was computed from such a line
    hadBacklog,   \* history: the buffer was non-empty when the call began
    arrived,      \* history: a line arrived after this call's buffer reset
    ggaDelivered, \* history: this call read a GGA sentence from the transport
    exhausted,    \* history: this call left the scan loop with retry = 100
    sawUndecodable, \* history: a read of this call returned bytes that are not UTF-8
    raw,          \* text model: the bytes one readline() returned
    handed,       \* text model: the text passed to pynmea2.parse
    printed,      \* text model: the text print-gps-data printed
    tpc,          \* text model: what became of the line read
    fstream,      \* resync model: the lines the transport returns after a reset
    fpos,         \* resync model: lines consumed by each copy of flush_serial
    fdone,        \* resync model: the copy of flush_serial has returned
    event,        \* the telemetry event in flight from IoT Hub to the function
    document      \* the document the Azure function returned for storage

vars == << pc, ret, buf, line, retry, result, err, emitted, staleCount,
           lineStale, fixStale, hadBacklog, arrived, ggaDelivered, exhausted,
           sawUndecodable, raw, handed, printed, tpc,
           fstream, fpos, fdone, event, document >>

devVars == << pc, ret, buf, line, retry, result, err, emitted, staleCount,
              lineStale, fixStale, hadBacklog, arrived, ggaDelivered, exhausted,
              sawUndecodable >>

textVars == << raw, handed, printed, tpc >>

auxVars == << fstream, fpos, fdone, event, document >>

flushVars == << fstream, fpos, fdone >>

cloudVars == << event, document >>

----------------------------------------------------------------------------
(* Bounds and program constants *)

MaxBuf == 1

MaxLineLen == 3

MaxStream == 3

maxAttempts == 100

NoFix == -999

MinutesPerDegree == 60

\* one fractional digit of the minutes is kept: units are 1/600 degree
Scale == MinutesPerDegree * 10

----------------------------------------------------------------------------
(* Lines and NMEA sentences *)

EmptyField == [int |-> << >>, frac |-> << >>]

\* A line as returned by readline(): b'' (timeout), bytes that are not
\* UTF-8, whitespace only, text that pynmea2 rejects, a well-formed sentence
\* of another type, or a GGA sentence with its fields as digit strings.
Line(kind) ==
    [kind |-> kind, lat |-> EmptyField, lat_dir |-> "",
     lon |-> EmptyField, lon_dir |-> "", num_sats |-> 0]

NoLine == Line("none")

RECURSIVE ToDigits(_, _)
ToDigits(n, w) ==
    IF w = 0 THEN << >> ELSE Append(ToDigits(n \div 10, w - 1), n % 10)

RECURSIVE FromDigits(_)
FromDigits(s) ==
    IF s = << >> THEN 0
    ELSE FromDigits(SubSeq(s, 1, Len(s) - 1)) * 10 + s[Len(s)]

\* The NMEA wire form DDMM.M / DDDMM.M of d degrees, m.f minutes
Wire(d, m, f, w) == [int |-> ToDigits(d, w) \o ToDigits(m, 2), frac |-> << f >>]

Gga(lat, lat_dir, lon, lon_dir, n) ==
    [kind |-> "GGA", lat |-> lat, lat_dir |-> lat_dir,
     lon |-> lon, lon_dir |-> lon_dir, num_sats |-> n]

\* $GPGGA,...,4807.0,N,01131.0,E,1,08,...   and a southern / western one
GgaNE == Gga(Wire(48, 7, 0, 2), "N", Wire(11, 31, 0, 3), "E", 8)

GgaSW == Gga(Wire(37, 46, 2, 2), "S", Wire(122, 25, 1, 3), "W", 5)

\* The lines the sensor can put on the wire in the control-flow model
SensorLines ==
    { Line("undecodable"), Line("blank"), Line("malformed"), Line("other"),
      GgaNE, GgaSW }

\* Coordinate fields of the conversion model: every combination of these
\* degrees, minutes and tenths in wire form, the empty field of a sentence
\* without a fix, and a field that is not of the form DDMM.M
LatDegrees == {0, 37, 89, 90, 99}

LonDegrees == {0, 122, 179, 180, 999}

Minutes == {0, 30, 59, 99}

Tenths == {0, 9}

BadField == [int |-> << 7 >>, frac |-> << 5 >>]

LatFields ==
    {EmptyField, BadField}
        \cup { Wire(d, m, f, 2) : d \in LatDegrees, m \in Minutes, f \in Tenths }

LonFields ==
    {EmptyField, BadField}
        \cup { Wire(d, m, f, 3) : d \in LonDegrees, m \in Minutes, f \in Tenths }

GgaSentences ==
    { Gga(la, ld, lo, od, n) :
        la \in LatFields, ld \in {"N", "S", ""},
        lo \in LonFields, od \in {"E", "W", ""}, n \in {0, 8} }

----------------------------------------------------------------------------
(* Library and helper functions, as the code uses them *)

\* reset_input_buffer() left out: the buffered lines stay
ResetInputBuffer_KeepsData(b) == b

\* serial.Serial.reset_input_buffer(): discards everything buffered
ResetInputBuffer(b) == << >>

\* a read that leaves the line in the buffer, to be read again
Readline_KeepsLine(b) ==
    IF b = << >> THEN [line |-> Line("timeout"), rest |-> << >>]
    ELSE [line |-> Head(b), rest |-> b]

\* serial.Serial.readline() with timeout=1: the next buffered line, or b''
Readline(b) ==
    IF b = << >> THEN [line |-> Line("timeout"), rest |-> << >>]
    ELSE [line |-> Head(b), rest |-> Tail(b)]

\* bytes.decode('utf-8') raises UnicodeDecodeError
DecodeFails(l) == l.kind = "undecodable"

\* truthiness of readline().decode('utf-8').strip()
StrippedNonEmpty(l) == l.kind \notin {"timeout", "blank"}

\* pynmea2.parse: ParseError (also ChecksumError, SentenceTypeError) unless
\* the text is a sentence of a known type
Parse(l) ==
    [ok |-> l.kind \in {"other", "GGA"},
     sentence_type |-> IF l.kind = "GGA" THEN "GGA" ELSE "RMC"]

\* dm_to_sd adding the minutes to the degrees without dividing by 60
dm_to_sd_MinutesNotDivided(dm) ==
    IF dm = EmptyField \/ dm = [int |-> << 0 >>, frac |-> << >>]
    THEN [ok |-> TRUE, value |-> 0]
    ELSE IF Len(dm.int) >= 3 /\ Len(dm.frac) >= 1
    THEN LET n == Len(dm.int)
             d == FromDigits(SubSeq(dm.int, 1, n - 2))
             m == FromDigits(SubSeq(dm.int, n - 1, n)) * 10 + dm.frac[1]
         IN  [ok |-> TRUE, value |-> d * Scale + m * MinutesPerDegree]
    ELSE [ok |-> FALSE, value |-> 0]

\* pynmea2.dm_to_sd: '' and '0' give 0; otherwise the text must match
\* ^(\d+)(\d\d\.\d+)$ and the value is float(d) + float(m)/60; when it does
\* not match, re.match returns None and .groups() raises AttributeError
dm_to_sd(dm) ==
    IF dm = EmptyField \/ dm = [int |-> << 0 >>, frac |-> << >>]
    THEN [ok |-> TRUE, value |-> 0]
    ELSE IF Len(dm.int) >= 3 /\ Len(dm.frac) >= 1
    THEN LET n == Len(dm.int)
             d == FromDigits(SubSeq(dm.int, 1, n - 2))
             m == FromDigits(SubSeq(dm.int, n - 1, n)) * 10 + dm.frac[1]
         IN  [ok |-> TRUE, value |-> d * Scale + m]
    ELSE [ok |-> FALSE, value |-> 0]

\* lines 98-99: S of the equator is negative
SignedLat(lat, lat_dir) == IF lat_dir = "S" THEN lat * (-1) ELSE lat

\* the longitude test written with the wrong hemisphere letter
SignedLon_NegatesEast(lon, lon_dir) == IF lon_dir = "E" THEN lon * (-1) ELSE lon

\* lines 101-102: W of the prime meridian is negative
SignedLon(lon, lon_dir) == IF lon_dir = "W" THEN lon * (-1) ELSE lon

\* class LatLon(NamedTuple) has three fields and no defaults: calling it
\* with fewer than three arguments raises TypeError
LatLon(args) ==
    IF Len(args) = 3
    THEN [ok |-> TRUE,
          value |-> [lat |-> args[1], lon |-> args[2], num_satellites |-> args[3]]]
    ELSE [ok |-> FALSE,
          value |-> [lat |-> 0, lon |-> 0, num_satellites |-> 0]]

NoResult == [lat |-> 0, lon |-> 0, num_satellites |-> 0]

\* main, line 133: lat_lon.lat > -999 and lat_lon.lon > -999
IsValidFix(f) == f.lat > NoFix * Scale /\ f.lon > NoFix * Scale

\* send_message, line 162: the telemetry body (print's text in decode-gps-data)
Message(f) == [lat |-> f.lat, lon |-> f.lon, num_satellites |-> f.num_satellites]

\* The three programs that carry a copy of flush_serial
Copies == {"print", "decode", "send"}

\* No event in flight; no document returned yet
NoEvent == [body |-> << >>, device |-> ""]

NoDocument ==
    [animalid |-> "", num_satellites |-> 0,
     location |-> [type |-> "", coordinates |-> << >>]]

----------------------------------------------------------------------------
(* The device program *)

InCall == ret = "call" /\ pc \in {"flush_reset", "flush_read", "scan", "parse", "reread"}

Init ==
    /\ pc = "start"
    /\ ret = "main"
    /\ buf \in {<< >>} \cup { << l >> : l \in SensorLines }
    /\ line = NoLine
    /\ retry = 0
    /\ result = NoResult
    /\ err = ""
    /\ emitted = << >>
    /\ staleCount = 0
    /\ lineStale = FALSE
    /\ fixStale = FALSE
    /\ hadBacklog = FALSE
    /\ arrived = FALSE
    /\ ggaDelivered = FALSE
    /\ exhausted = FALSE
    /\ sawUndecodable = FALSE
    /\ raw = << >>
    /\ handed = << >>
    /\ printed = << >>
    /\ tpc = "idle"
    /\ fstream = << >>
    /\ fpos = [c \in Copies |-> 0]
    /\ fdone = [c \in Copies |-> FALSE]
    /\ event = NoEvent
    /\ document = NoDocument

\* The sensor puts one more line on the wire
Arrive ==
    /\ Len(buf) < MaxBuf
    /\ \E l \in SensorLines : buf' = Append(buf, l)
    /\ arrived' = (arrived \/ (ret = "call" /\ pc \in {"flush_read", "scan", "parse", "reread"}))
    /\ UNCHANGED << pc, ret, line, retry, result, err, emitted, staleCount,
                    lineStale, fixStale, hadBacklog, ggaDelivered, exhausted,
                    sawUndecodable >>
    /\ UNCHANGED textVars
    /\ UNCHANGED auxVars

\* main, lines 121-124: open the port and call flush_serial
MainStart ==
    /\ pc = "start"
    /\ pc' = "flush_reset"
    /\ ret' = "main"
    /\ UNCHANGED << buf, line, retry, result, err, emitted, staleCount,
                    lineStale, fixStale, hadBacklog, arrived, ggaDelivered, exhausted,
                    sawUndecodable >>
    /\ UNCHANGED textVars
    /\ UNCHANGED auxVars

\* main, line 129 and get_next_location, line 64: a poll cycle starts
Poll ==
    /\ pc = "poll"
    /\ pc' = "flush_reset"
    /\ ret' = "call"
    /\ line' = NoLine
    /\ result' = NoResult
    /\ emitted' = << >>
    /\ staleCount' = Len(buf)
    /\ hadBacklog' = (buf # << >>)
    /\ lineStale' = FALSE
    /\ fixStale' = FALSE
    /\ arrived' = FALSE
    /\ ggaDelivered' = FALSE
    /\ exhausted' = FALSE
    /\ sawUndecodable' = FALSE
    /\ UNCHANGED << buf, retry, err >>
    /\ UNCHANGED textVars
    /\ UNCHANGED auxVars

\* flush_serial, lines 37-38
FlushReset ==
    /\ pc = "flush_reset"
    /\ buf' = ResetInputBuffer(buf)
    /\ staleCount' = IF Len(buf') < staleCount THEN Len(buf') ELSE staleCount
    /\ pc' = "flush_read"
    /\ UNCHANGED << ret, line, retry, result, err, emitted, lineStale,
                    fixStale, hadBacklog, arrived, ggaDelivered, exhausted,
                    sawUndecodable >>
    /\ UNCHANGED textVars
    /\ UNCHANGED auxVars

\* flush_serial, lines 43-51: one iteration of `while not line`; on leaving
\* the loop flush_serial returns, to main (line 126) or to
\* get_next_location (line 69: retry = 0)
FlushRead ==
    /\ pc = "flush_read"
    /\ LET r == Readline(buf) IN
        /\ buf' = r.rest
        /\ staleCount' = IF staleCount > 0 THEN staleCount - 1 ELSE 0
        /\ sawUndecodable' = (sawUndecodable \/ DecodeFails(r.line))
        /\ ggaDelivered' = (ggaDelivered \/ (ret = "call" /\ r.line.kind = "GGA"))
        /\ lineStale' = (lineStale \/ (ret = "call" /\ staleCount > 0 /\ buf # << >>))
        /\ IF DecodeFails(r.line) \/ ~StrippedNonEmpty(r.line)
           THEN /\ pc' = "flush_read"
                /\ retry' = retry
           ELSE IF ret = "main"
           THEN /\ pc' = "poll"
                /\ retry' = retry
           ELSE /\ pc' = "scan"
                /\ retry' = 0
    /\ UNCHANGED << ret, line, result, err, emitted, fixStale, hadBacklog,
                    arrived, exhausted >>
    /\ UNCHANGED textVars
    /\ UNCHANGED auxVars

\* get_next_location, lines 72-74: the loop test and the first read of an
\* iteration; decode('utf-8') is not inside a try
ScanRead ==
    /\ pc = "scan"
    /\ retry < maxAttempts
    /\ LET r == Readline(buf) IN
        /\ buf' = r.rest
        /\ staleCount' = IF staleCount > 0 THEN staleCount - 1 ELSE 0
        /\ sawUndecodable' = (sawUndecodable \/ DecodeFails(r.line))
        /\ ggaDelivered' = (ggaDelivered \/ r.line.kind = "GGA")
        /\ IF DecodeFails(r.line)
           THEN /\ pc' = "raised"
                /\ err' = "UnicodeDecodeError"
                /\ UNCHANGED << line, lineStale >>
           ELSE /\ pc' = "parse"
                /\ line' = r.line
                /\ lineStale' = (staleCount > 0 /\ buf # << >>)
                /\ err' = err
    /\ UNCHANGED << ret, retry, result, emitted, fixStale, hadBacklog,
                    arrived, exhausted >>
    /\ UNCHANGED textVars
    /\ UNCHANGED auxVars

\* get_next_location, lines 72 and 111: the loop ends with retry = 100 and
\* the function builds LatLon(-999, -999)
ScanExhausted ==
    /\ pc = "scan"
    /\ ~(retry < maxAttempts)
    /\ exhausted' = TRUE
    /\ LET v == LatLon(<< NoFix * Scale, NoFix * Scale >>) IN
        IF v.ok
        THEN /\ pc' = "returned"
             /\ result' = v.value
             /\ err' = err
        ELSE /\ pc' = "raised"
             /\ err' = "TypeError"
             /\ result' = result
    /\ UNCHANGED << ret, buf, line, retry, emitted, staleCount, lineStale,
                    fixStale, hadBacklog, arrived, ggaDelivered,
                    sawUndecodable >>
    /\ UNCHANGED textVars
    /\ UNCHANGED auxVars

\* the except branch also counting the attempt
ParseFails_CountsAttempt ==
    /\ pc = "parse"
    /\ ~Parse(line).ok
    /\ pc' = "reread"
    /\ retry' = retry + 1
    /\ UNCHANGED << ret, buf, line, result, err, emitted, staleCount,
                    lineStale, fixStale, hadBacklog, arrived, ggaDelivered, exhausted,
                    sawUndecodable >>
    /\ UNCHANGED textVars
    /\ UNCHANGED auxVars

\* get_next_location, lines 79-84: pynmea2.parse raises ParseError
ParseFails ==
    /\ pc = "parse"
    /\ ~Parse(line).ok
    /\ pc' = "reread"
    /\ UNCHANGED << ret, buf, line, retry, result, err, emitted, staleCount,
                    lineStale, fixStale, hadBacklog, arrived, ggaDelivered, exhausted,
                    sawUndecodable >>
    /\ UNCHANGED textVars
    /\ UNCHANGED auxVars

\* get_next_location, line 85: the read in the except branch
Reread ==
    /\ pc = "reread"
    /\ LET r == Readline(buf) IN
        /\ buf' = r.rest
        /\ staleCount' = IF staleCount > 0 THEN staleCount - 1 ELSE 0
        /\ sawUndecodable' = (sawUndecodable \/ DecodeFails(r.line))
        /\ ggaDelivered' = (ggaDelivered \/ r.line.kind = "GGA")
        /\ IF DecodeFails(r.line)
           THEN /\ pc' = "raised"
                /\ err' = "UnicodeDecodeError"
                /\ UNCHANGED << line, lineStale >>
           ELSE /\ pc' = "parse"
                /\ line' = r.line
                /\ lineStale' = (staleCount > 0 /\ buf # << >>)
                /\ err' = err
    /\ UNCHANGED << ret, retry, result, emitted, fixStale, hadBacklog,
                    arrived, exhausted >>
    /\ UNCHANGED textVars
    /\ UNCHANGED auxVars

\* the loop without its `retry += 1`
ParseOther_NoIncrement ==
    /\ pc = "parse"
    /\ Parse(line).ok
    /\ Parse(line).sentence_type # "GGA"
    /\ pc' = "scan"
    /\ UNCHANGED << ret, buf, line, retry, result, err, emitted, staleCount,
                    lineStale, fixStale, hadBacklog, arrived, ggaDelivered, exhausted,
                    sawUndecodable >>
    /\ UNCHANGED textVars
    /\ UNCHANGED auxVars

\* get_next_location, lines 89 and 108: a sentence of another type
ParseOther ==
    /\ pc = "parse"
    /\ Parse(line).ok
    /\ Parse(line).sentence_type # "GGA"
    /\ retry' = retry + 1
    /\ pc' = "scan"
    /\ UNCHANGED << ret, buf, line, result, err, emitted, staleCount,
                    lineStale, fixStale, hadBacklog, arrived, ggaDelivered, exhausted,
                    sawUndecodable >>
    /\ UNCHANGED textVars
    /\ UNCHANGED auxVars

\* get_next_location, lines 89-105: a GGA sentence
ParseGGA ==
    /\ pc = "parse"
    /\ Parse(line).ok
    /\ Parse(line).sentence_type = "GGA"
    /\ LET lat == dm_to_sd(line.lat)
           lon == dm_to_sd(line.lon)
       IN  IF lat.ok /\ lon.ok
           THEN /\ result' = LatLon(<< SignedLat(lat.value, line.lat_dir),
                                       SignedLon(lon.value, line.lon_dir),
                                       line.num_sats >>).value
                /\ fixStale' = lineStale
                /\ pc' = "returned"
                /\ err' = err
           ELSE /\ pc' = "raised"
                /\ err' = "AttributeError"
                /\ UNCHANGED << result, fixStale >>
    /\ UNCHANGED << ret, buf, line, retry, emitted, staleCount, lineStale,
                    hadBacklog, arrived, ggaDelivered, exhausted,
                    sawUndecodable >>
    /\ UNCHANGED textVars
    /\ UNCHANGED auxVars

\* main, lines 133-135 (decode-gps-data) and 193-195 (send-gps-data)
MainCheck ==
    /\ pc = "returned"
    /\ emitted' = IF IsValidFix(result) THEN Append(emitted, Message(result)) ELSE emitted
    /\ pc' = "sleep"
    /\ UNCHANGED << ret, buf, line, retry, result, err, staleCount, lineStale,
                    fixStale, hadBacklog, arrived, ggaDelivered, exhausted,
                    sawUndecodable >>
    /\ UNCHANGED textVars
    /\ UNCHANGED auxVars

\* main, line 138 (decode-gps-data) and 198 (send-gps-data)
Sleep ==
    /\ pc = "sleep"
    /\ pc' = "poll"
    /\ UNCHANGED << ret, buf, line, retry, result, err, emitted, staleCount,
                    lineStale, fixStale, hadBacklog, arrived, ggaDelivered, exhausted,
                    sawUndecodable >>
    /\ UNCHANGED textVars
    /\ UNCHANGED auxVars

Program ==
    \/ MainStart
    \/ Poll
    \/ FlushReset
    \/ FlushRead
    \/ ScanRead
    \/ ScanExhausted
    \/ ParseFails
    \/ Reread
    \/ ParseOther
    \/ ParseGGA
    \/ MainCheck
    \/ Sleep

Next == Program \/ Arrive

Spec == Init /\ [][Next]_vars

\* The program is one thread that is never descheduled for ever
FairSpec == Spec /\ WF_vars(Program)

----------------------------------------------------------------------------
(* Properties of the device program *)

CallEnded == ret = "call" /\ pc \in {"returned", "raised"}

Sentinel == [lat |-> NoFix * Scale, lon |-> NoFix * Scale, num_satellites |-> 0]

\* C1: when the scan loop has parsed 100 well-formed sentences none of which
\* is a GGA, the call returns the fix (-999, -999, 0) to its caller as a
\* value and does not end in an error.
C1_ExhaustionReturnsSentinel ==
    exhausted => (pc # "raised" /\ err = "" /\ result = Sentinel)

\* C2: a call that has been delivered a well-formed GGA sentence within its
\* budget ends by returning a fix that is not the sentinel: it does not end
\* in an error and does not exhaust the budget.
C2_GgaWithinBudgetIsFound ==
    (ret = "call" /\ ggaDelivered /\ pc \in {"returned", "raised", "sleep"})
        => (err = "" /\ ~exhausted /\ result # Sentinel /\ pc # "raised")

\* C3: a step of the call changes retry only by adding one after parsing a
\* well-formed sentence that is not a GGA, which it always does; a line that
\* raises ParseError, and the read that follows it, leave retry unchanged.
C3_MalformedNeverCounts ==
    [][ /\ (pc = "parse" /\ pc' # pc /\ Parse(line).ok
              /\ Parse(line).sentence_type # "GGA") => retry' = retry + 1
        /\ (pc = "parse" /\ ~Parse(line).ok) => (retry' = retry /\ ~exhausted')
        /\ pc = "reread" => retry' = retry
        /\ retry' # retry =>
              \/ (pc = "flush_read" /\ retry' = 0)
              \/ (pc = "parse" /\ Parse(line).ok /\ retry' = retry + 1) ]_vars

\* C3 witness: a malformed line has just been rejected while 99 sentences
\* have already been skipped
C3_Witness == pc = "reread" /\ retry = maxAttempts - 1

\* A read handed the program a well-formed sentence (or, in the resync
\* step, the non-blank line that ends it)
SentenceRead ==
    \/ pc = "flush_read" /\ pc' # "flush_read"
    \/ pc \in {"scan", "reread"} /\ pc' = "parse" /\ Parse(line').ok

\* A read handed the program a decodable line that is not blank
TextLineRead ==
    \/ pc = "flush_read" /\ pc' # "flush_read"
    \/ pc \in {"scan", "reread"} /\ pc' = "parse" /\ StrippedNonEmpty(line')

\* C4 as stated: if every line read decodes and decodable non-blank lines
\* keep being received, every call eventually ends.
C4_AlwaysReturns ==
    ([]<><<TextLineRead>>_vars /\ [](~sawUndecodable)) => (InCall ~> CallEnded)

\* C4 amended: every call eventually ends (with a fix or with an error) as
\* long as reads keep handing it well-formed sentences.
C4_EndsWhileSentencesArrive ==
    ([]<><<SentenceRead>>_vars) => (InCall ~> CallEnded)

\* C4 witness: a call has returned a fix after skipping 99 other sentences
C4_Witness == pc = "returned" /\ ret = "call" /\ retry = maxAttempts - 1

\* C5: no UnicodeDecodeError reaches the caller of get_next_location.
C5_DecodeErrorNeverSurfaced == err # "UnicodeDecodeError"

\* C8: after the buffer reset of a call nothing that was buffered when the
\* call began is left to read, no fix is computed from such a line, and
\* until a new line has arrived the call stays in its resync step.
C8_NoStaleData ==
    /\ (ret = "call" /\ pc \in {"flush_read", "scan", "parse", "reread"})
          => (staleCount = 0 /\ ~lineStale)
    /\ (ret = "call" /\ pc \in {"returned", "sleep"}) => ~fixStale
    /\ (ret = "call" /\ ~arrived) => pc \in {"flush_reset", "flush_read"}

\* C8 witness: a call that began with a backlog has returned a fix
C8_Witness ==
    pc = "returned" /\ ret = "call" /\ hadBacklog /\ IsValidFix(result)

\* C9: a poll cycle whose call exhausted the budget emits nothing and goes
\* on to sleep and the next cycle; a cycle has emitted exactly one message,
\* carrying the returned fix, iff that fix has lat > -999 and lon > -999.
C9_ExhaustedCycleIsSkipped ==
    /\ exhausted => (pc \in {"returned", "sleep", "poll"} /\ emitted = << >>)
    /\ (ret = "call" /\ pc \in {"sleep", "poll"}) =>
          IF IsValidFix(result) THEN emitted = << Message(result) >>
          ELSE emitted = << >>

----------------------------------------------------------------------------
(* The conversion of one GGA sentence: get_next_location from the moment   *)
(* line 82 has been handed a GGA sentence, for every sentence of           *)
(* GgaSentences, up to the main loop's validity test                       *)

InitConv ==
    /\ pc = "parse"
    /\ ret = "call"
    /\ buf = << >>
    /\ line \in GgaSentences
    /\ retry = 0
    /\ result = NoResult
    /\ err = ""
    /\ emitted = << >>
    /\ staleCount = 0
    /\ lineStale = FALSE
    /\ fixStale = FALSE
    /\ hadBacklog = FALSE
    /\ arrived = TRUE
    /\ ggaDelivered = TRUE
    /\ exhausted = FALSE
    /\ sawUndecodable = FALSE
    /\ raw = << >>
    /\ handed = << >>
    /\ printed = << >>
    /\ tpc = "idle"
    /\ fstream = << >>
    /\ fpos = [c \in Copies |-> 0]
    /\ fdone = [c \in Copies |-> FALSE]
    /\ event = NoEvent
    /\ document = NoDocument

NextConv == ParseGGA \/ MainCheck

SpecConv == InitConv /\ [][NextConv]_vars

\* C6: for a GGA sentence with latitude d1 degrees m1 minutes, hemisphere
\* N or S, and longitude d2 degrees m2 minutes, hemisphere E or W, the fix
\* returned is lat = s1 * (d1 + m1/60), lon = s2 * (d2 + m2/60), with s1 = -1
\* iff the hemisphere is S and s2 = -1 iff it is W, each sign depending on
\* its own hemisphere only; the satellite count is the sentence's.
C6_HemisphereCorrection ==
    (pc = "returned" /\ ~exhausted) =>
        /\ \A d \in LatDegrees, m \in Minutes, f \in Tenths :
              (line.lat = Wire(d, m, f, 2) /\ line.lat_dir \in {"N", "S"}) =>
                  result.lat = (IF line.lat_dir = "S" THEN -1 ELSE 1)
                                  * (d * Scale + m * 10 + f)
        /\ \A d \in LonDegrees, m \in Minutes, f \in Tenths :
              (line.lon = Wire(d, m, f, 3) /\ line.lon_dir \in {"E", "W"}) =>
                  result.lon = (IF line.lon_dir = "W" THEN -1 ELSE 1)
                                  * (d * Scale + m * 10 + f)
        /\ result.num_satellites = line.num_sats

\* C6 witness: a southern, eastern fix has been returned: the latitude is
\* negated and the longitude is not
C6_Witness ==
    /\ pc = "returned"
    /\ line.lat = Wire(37, 30, 9, 2) /\ line.lat_dir = "S"
    /\ line.lon = Wire(122, 59, 0, 3) /\ line.lon_dir = "E"
    /\ result.lat < 0 /\ result.lon > 0

\* C7 as stated: every fix returned for a GGA sentence has latitude in
\* [-90, 90], longitude in [-180, 180] and a satellite count >= 0.
C7_FixAlwaysInRange ==
    (pc = "returned" /\ ~exhausted) =>
        /\ result.lat >= -90 * Scale /\ result.lat <= 90 * Scale
        /\ result.lon >= -180 * Scale /\ result.lon <= 180 * Scale
        /\ result.num_satellites >= 0

\* The field is empty, or the wire form of a magnitude of at most max degrees
EncodesAtMost(field, w, degs, max) ==
    \/ field = EmptyField
    \/ \E d \in degs, m \in Minutes, f \in Tenths :
          field = Wire(d, m, f, w) /\ d * Scale + m * 10 + f <= max * Scale

\* C7 amended: the fix returned for a GGA sentence whose latitude field
\* encodes at most 90 degrees has latitude in [-90, 90], the fix of one
\* whose longitude field encodes at most 180 degrees has longitude in
\* [-180, 180], and the satellite count is >= 0.
C7_InRangeFieldsGiveInRangeFix ==
    (pc = "returned" /\ ~exhausted) =>
        /\ EncodesAtMost(line.lat, 2, LatDegrees, 90) =>
              (result.lat >= -90 * Scale /\ result.lat <= 90 * Scale)
        /\ EncodesAtMost(line.lon, 3, LonDegrees, 180) =>
              (result.lon >= -180 * Scale /\ result.lon <= 180 * Scale)
        /\ result.num_satellites >= 0

\* C7 witness: a fix at 89 degrees 59.9 minutes south, 180 degrees west
C7_Witness ==
    /\ pc = "returned"
    /\ line.lat = Wire(89, 59, 9, 2) /\ line.lat_dir = "S"
    /\ line.lon = Wire(180, 0, 0, 3) /\ line.lon_dir = "W"
    /\ result.lat = -(90 * Scale - 1) /\ result.lon = -180 * Scale

----------------------------------------------------------------------------
(* The text of one line: what the programs do with the bytes of one        *)
(* readline(), for every line of at most MaxLineLen bytes.  A byte is a    *)
(* printable character X, a space SP, a carriage return CR, the line feed  *)
(* LF that ends a line, or a byte BAD that is not valid UTF-8.             *)

Whitespace == {"SP", "CR", "LF"}

RECURSIVE SeqsUpTo(_, _)
SeqsUpTo(S, n) ==
    IF n = 0 THEN { << >> }
    ELSE LET shorter == SeqsUpTo(S, n - 1)
         IN  shorter \cup { Append(q, c) : q \in shorter, c \in S }

\* readline() returns the bytes up to and including the first LF, or the
\* bytes received so far (possibly none) when the timeout expires
RawLines ==
    LET body == SeqsUpTo({"X", "SP", "CR", "BAD"}, MaxLineLen)
    IN  body \cup { Append(q, "LF") : q \in { b \in body : Len(b) < MaxLineLen } }

\* bytes.decode('utf-8')
Decode(b) ==
    [ok |-> \A i \in 1..Len(b) : b[i] # "BAD", text |-> b]

RECURSIVE LStrip(_)
LStrip(t) ==
    IF t # << >> /\ Head(t) \in Whitespace THEN LStrip(Tail(t)) ELSE t

RECURSIVE RStrip(_)
RStrip(t) ==
    IF t # << >> /\ t[Len(t)] \in Whitespace
    THEN RStrip(SubSeq(t, 1, Len(t) - 1)) ELSE t

\* rstrip() in place of strip()
Strip_TrailingOnly(t) == RStrip(t)

\* str.strip()
Strip(t) == LStrip(RStrip(t))

InitText ==
    /\ raw \in RawLines
    /\ handed = << >>
    /\ printed = << >>
    /\ tpc = "read"
    /\ fstream = << >>
    /\ fpos = [c \in Copies |-> 0]
    /\ fdone = [c \in Copies |-> FALSE]
    /\ event = NoEvent
    /\ document = NoDocument
    /\ pc = "scan"
    /\ ret = "call"
    /\ buf = << >>
    /\ line = NoLine
    /\ retry = 0
    /\ result = NoResult
    /\ err = ""
    /\ emitted = << >>
    /\ staleCount = 0
    /\ lineStale = FALSE
    /\ fixStale = FALSE
    /\ hadBacklog = FALSE
    /\ arrived = TRUE
    /\ ggaDelivered = FALSE
    /\ exhausted = FALSE
    /\ sawUndecodable = FALSE

\* print-gps-data, lines 47-49: one iteration of the main loop
PrintLine ==
    /\ tpc = "read"
    /\ IF ~Decode(raw).ok
       THEN /\ tpc' = "raised"
            /\ printed' = printed
       ELSE LET l == Strip(Decode(raw).text) IN
            IF l # << >>
            THEN /\ printed' = l
                 /\ tpc' = "printed"
            ELSE /\ printed' = printed
                 /\ tpc' = "skipped"
    /\ UNCHANGED << raw, handed >>
    /\ UNCHANGED devVars
    /\ UNCHANGED auxVars

\* decode-gps-data and send-gps-data, get_next_location lines 74 and 85
\* followed by line 82: the decoded line is passed to pynmea2.parse
HandToParser ==
    /\ tpc = "read"
    /\ IF ~Decode(raw).ok
       THEN /\ tpc' = "raised"
            /\ handed' = handed
       ELSE /\ handed' = Decode(raw).text
            /\ tpc' = "parsing"
    /\ UNCHANGED << raw, printed >>
    /\ UNCHANGED devVars
    /\ UNCHANGED auxVars

NextText == PrintLine \/ HandToParser

SpecText == InitText /\ [][NextText]_vars

\* The text has no line delimiter at its end and no whitespace at either end
IsClean(t) == t = << >> \/ (t[1] \notin Whitespace /\ t[Len(t)] \notin Whitespace)

\* C10 as stated: the line passed to the sentence parser and the line
\* printed by print-gps-data have no trailing line delimiter and no leading
\* or trailing whitespace.
C10_ConsumedLinesAreStripped ==
    /\ tpc = "parsing" => IsClean(handed)
    /\ tpc = "printed" => IsClean(printed)

\* C10 amended: every line printed by the main loop of print-gps-data is
\* non-empty and has no trailing line delimiter and no leading or trailing
\* whitespace.
C10_PrintedLinesAreStripped ==
    tpc = "printed" => (printed # << >> /\ IsClean(printed))

\* C10 witness: a line with leading whitespace and its delimiter was printed
C10_Witness ==
    tpc = "printed" /\ raw = << "SP", "X", "LF" >> /\ printed = << "X" >>

----------------------------------------------------------------------------
(* The call as a state machine, and the order in which it consumes lines *)

\* The call returned the fix of a GGA sentence
Found == pc = "returned" /\ ~exhausted /\ line.kind = "GGA"

\* C11: in every state of a call 0 <= retry <= 100, the call leaves the
\* scan loop without a fix exactly when retry = 100, and a call that has
\* ended has ended in Found or in Exhausted.
C11_BudgetStateMachine ==
    /\ retry \in 0..maxAttempts
    /\ exhausted => retry = maxAttempts
    /\ (ret = "call" /\ pc = "scan" /\ retry = 0) => ~exhausted
    /\ CallEnded => (Found \/ exhausted)

----------------------------------------------------------------------------
(* The resync step of flush_serial in its three copies, each run on the    *)
(* same lines: what readline() returns, call after call, once the input    *)
(* buffer has been reset (b'' stands for a read that timed out)            *)

FlushLines ==
    { Line("timeout"), Line("undecodable"), Line("blank"), Line("other") }

\* the send-gps-data copy written with the loop test of print-gps-data
FlushExits_SendTestsNone(c, l) ==
    IF c \in {"print", "send"} THEN ~DecodeFails(l)
    ELSE ~DecodeFails(l) /\ StrippedNonEmpty(l)

\* The loop test after one read: print-gps-data loops `while read_line is
\* None` on the decoded line (lines 27-34); decode-gps-data (lines 44-51)
\* and send-gps-data (lines 61-68) loop `while not line` on the decoded and
\* stripped line
FlushExits(c, l) ==
    IF c = "print" THEN ~DecodeFails(l)
    ELSE ~DecodeFails(l) /\ StrippedNonEmpty(l)

InitFlush ==
    /\ fstream \in SeqsUpTo(FlushLines, MaxStream)
    /\ fpos = [c \in Copies |-> 0]
    /\ fdone = [c \in Copies |-> FALSE]
    /\ event = NoEvent
    /\ document = NoDocument
    /\ raw = << >>
    /\ handed = << >>
    /\ printed = << >>
    /\ tpc = "idle"
    /\ pc = "flush_read"
    /\ ret = "main"
    /\ buf = << >>
    /\ line = NoLine
    /\ retry = 0
    /\ result = NoResult
    /\ err = ""
    /\ emitted = << >>
    /\ staleCount = 0
    /\ lineStale = FALSE
    /\ fixStale = FALSE
    /\ hadBacklog = FALSE
    /\ arrived = FALSE
    /\ ggaDelivered = FALSE
    /\ exhausted = FALSE
    /\ sawUndecodable = FALSE

\* print-gps-data, flush_serial lines 26-34: one iteration of the loop
PrintFlush ==
    /\ ~fdone["print"]
    /\ fpos["print"] < Len(fstream)
    /\ fpos' = [fpos EXCEPT !["print"] = fpos["print"] + 1]
    /\ fdone' = [fdone EXCEPT !["print"] = FlushExits("print", fstream[fpos["print"] + 1])]
    /\ UNCHANGED << fstream, event, document >>
    /\ UNCHANGED devVars
    /\ UNCHANGED textVars

\* decode-gps-data, flush_serial lines 43-51: one iteration of the loop
DecodeFlush ==
    /\ ~fdone["decode"]
    /\ fpos["decode"] < Len(fstream)
    /\ fpos' = [fpos EXCEPT !["decode"] = fpos["decode"] + 1]
    /\ fdone' = [fdone EXCEPT !["decode"] = FlushExits("decode", fstream[fpos["decode"] + 1])]
    /\ UNCHANGED << fstream, event, document >>
    /\ UNCHANGED devVars
    /\ UNCHANGED textVars

\* send-gps-data, flush_serial lines 60-68: one iteration of the loop
SendFlush ==
    /\ ~fdone["send"]
    /\ fpos["send"] < Len(fstream)
    /\ fpos' = [fpos EXCEPT !["send"] = fpos["send"] + 1]
    /\ fdone' = [fdone EXCEPT !["send"] = FlushExits("send", fstream[fpos["send"] + 1])]
    /\ UNCHANGED << fstream, event, document >>
    /\ UNCHANGED devVars
    /\ UNCHANGED textVars

NextFlush == PrintFlush \/ DecodeFlush \/ SendFlush

SpecFlush == InitFlush /\ [][NextFlush]_vars

\* The position of the first line of the stream that is valid UTF-8, and of
\* the first that is valid UTF-8 and more than whitespace (0 if none)
FirstDecodable ==
    LET I == { i \in 1..Len(fstream) : fstream[i].kind # "undecodable" }
    IN  IF I = {} THEN 0 ELSE CHOOSE i \in I : \A j \in I : i <= j

FirstText ==
    LET I == { i \in 1..Len(fstream) : fstream[i].kind = "other" }
    IN  IF I = {} THEN 0 ELSE CHOOSE i \in I : \A j \in I : i <= j

----------------------------------------------------------------------------
(* From the device to the stored record: send-gps-data's send_message and  *)
(* the Azure function gps_data_trigger, for the fix of every sentence of   *)
(* CloudSentences                                                          *)

DeviceIds == {"gps-sensor", "collar-7"}

CloudSentences ==
    { Gga(la, ld, lo, od, n) :
        la \in {Wire(37, 30, 9, 2), Wire(89, 59, 0, 2)}, ld \in {"N", "S"},
        lo \in {Wire(122, 59, 0, 3), Wire(37, 30, 9, 3), Wire(999, 0, 0, 3)},
        od \in {"E", "W"}, n \in {0, 8} }

\* A JSON object is its members in order; a member is read by its key
Member(k, v) == [key |-> k, value |-> v]

Get(obj, k) == obj[CHOOSE i \in 1..Len(obj) : obj[i].key = k].value

\* send_message, lines 162-167: json.dumps of the message dictionary
MessageJson(m) ==
    << Member("gps", << Member("lat", m.lat), Member("lon", m.lon),
                        Member("num_satellites", m.num_satellites) >>) >>

\* the record with the coordinates in the order of the message
FunctionRecord_LatFirst(ev) ==
    LET gps == Get(ev.body, "gps")
    IN  [animalid |-> ev.device,
         num_satellites |-> Get(gps, "num_satellites"),
         location |-> [type |-> "Point",
                       coordinates |-> << Get(gps, "lat"), Get(gps, "lon") >>]]

\* gps_data_trigger main, lines 18-35: json.loads of the body and the record
FunctionRecord(ev) ==
    LET gps == Get(ev.body, "gps")
    IN  [animalid |-> ev.device,
         num_satellites |-> Get(gps, "num_satellites"),
         location |-> [type |-> "Point",
                       coordinates |-> << Get(gps, "lon"), Get(gps, "lat") >>]]

InitCloud ==
    /\ pc = "parse"
    /\ ret = "call"
    /\ buf = << >>
    /\ line \in CloudSentences
    /\ retry = 0
    /\ result = NoResult
    /\ err = ""
    /\ emitted = << >>
    /\ staleCount = 0
    /\ lineStale = FALSE
    /\ fixStale = FALSE
    /\ hadBacklog = FALSE
    /\ arrived = TRUE
    /\ ggaDelivered = TRUE
    /\ exhausted = FALSE
    /\ sawUndecodable = FALSE
    /\ raw = << >>
    /\ handed = << >>
    /\ printed = << >>
    /\ tpc = "idle"
    /\ fstream = << >>
    /\ fpos = [c \in Copies |-> 0]
    /\ fdone = [c \in Copies |-> FALSE]
    /\ event = NoEvent
    /\ document = NoDocument

\* send_message, lines 165-170, and IoT Hub handing the message to the
\* function as an event that carries the sending device's id
SendMessage ==
    /\ pc = "sleep"
    /\ emitted # << >>
    /\ event = NoEvent
    /\ \E id \in DeviceIds :
          event' = [body |-> MessageJson(emitted[1]), device |-> id]
    /\ UNCHANGED << fstream, fpos, fdone, document >>
    /\ UNCHANGED devVars
    /\ UNCHANGED textVars

\* gps_data_trigger main, lines 11-39
FunctionMain ==
    /\ event # NoEvent
    /\ document = NoDocument
    /\ document' = FunctionRecord(event)
    /\ UNCHANGED << fstream, fpos, fdone, event >>
    /\ UNCHANGED devVars
    /\ UNCHANGED textVars

NextCloud == ParseGGA \/ MainCheck \/ SendMessage \/ FunctionMain

SpecCloud == InitCloud /\ [][NextCloud]_vars

\* C14: the document the function produces for a fix (lat, lon, n) sent by
\* send_message is a GeoJSON Point with coordinates [lon, lat], its
\* num_satellites is n and its animalid the connection-device-id of the
\* event; only fixes with lat > -999 and lon > -999 are sent.
C14_StoredRecordIsLonLat ==
    /\ event # NoEvent =>
          /\ IsValidFix(result)
          /\ emitted = << [lat |-> result.lat, lon |-> result.lon,
                           num_satellites |-> result.num_satellites] >>
    /\ document # NoDocument =>
          /\ document.location.type = "Point"
          /\ document.location.coordinates = << result.lon, result.lat >>
          /\ document.num_satellites = result.num_satellites
          /\ document.animalid = event.device
          /\ event.device \in DeviceIds

\* C14 witness: a southern, eastern fix from collar-7 has been turned into
\* a document
C14_Witness ==
    /\ document # NoDocument
    /\ document.animalid = "collar-7"
    /\ line.lat = Wire(89, 59, 0, 2) /\ line.lat_dir = "S"
    /\ line.lon = Wire(37, 30, 9, 3) /\ line.lon_dir = "E"
    /\ document.location.coordinates[1] > 0
    /\ document.location.coordinates[2] < 0

====
